---- MODULE Spec2Model ----
(***************************************************************************)
(* Request signing and session handling of the third-party API clients:    *)
(*   - ThirdPartyAPIClient   (Node SDK, third_party_client.js)             *)
(*   - FedshiAPIClient + FedshiIntegrationApp (browser tool, app.js)       *)
(*   - FedshiGraphQLClient   (GraphQL quick start, "Complete JavaScript    *)
(*     Client")                                                            *)
(*   - the quick start guide's ThirdPartyAPIClient (login + GraphQL)       *)
(*   - the documented Python signers                                       *)
(*                                                                         *)
(* A string is a sequence of tokens; a token stands for a run of           *)
(* characters that contains no line feed, and NL is the line feed itself.  *)
(* Template literals and + are sequence concatenation.                     *)
(***************************************************************************)
EXTENDS Integers, Sequences, FiniteSets, TLC

VARIABLES
    now,        \* the system clock, in milliseconds (what new Date() reads)
    client,     \* the client instance of this process / page
    app,        \* window.app of the browser tool (FedshiIntegrationApp)
    jwtToken,   \* this.jwtToken of the quick start guide's client
    calls,      \* the invocations made so far, each with its request and outcome
    sigs        \* the last direct invocation of a signer: its inputs and result

vars == <<now, client, app, jwtToken, calls, sigs>>

----------------------------------------------------------------------------
(* Bounds *)

MaxClock == 1
MaxCalls == 2

----------------------------------------------------------------------------
(* Strings *)

NL == "\n"

\* JavaScript undefined / null, and a header that is not set
Undefined == <<"<undefined>">>
Absent == <<"<absent>">>
EmptyString == << >>

Methods == {<<"GET">>, <<"POST">>}
ApiKeys == {<<"key1">>, <<"key2">>}
Secrets == {<<"secretA">>, <<"secretB">>}

\* Date.prototype.toISOString: millisecond resolution, one string per instant
MsDigits == <<"000", "001", "002", "003", "004", "005", "006", "007", "008", "009">>

toISOString(ms) == <<"2024-01-15T10:30:45.", MsDigits[ms + 1], "Z">>


\* datetime.utcnow().isoformat() + 'Z': microsecond resolution
isoformat(ms) == <<"2024-01-15T10:30:45.", MsDigits[ms + 1], "000">>

Timestamps == {toISOString(0), toISOString(1)}
Paths == {<<"/api/v1/third-party/export-order-shipment-receipt/", "ABC123">>,
          <<"/api/v1/third-party/usage-stats">>}
Bodies == {EmptyString, <<"{\"a\":1}">>, <<"line1", NL, "line2">>}

----------------------------------------------------------------------------
(* HMAC-SHA256, hex encoded.  The digest is kept symbolic: it is determined *)
(* by the key and the message and by nothing else, and two digests are      *)
(* equal only when key and message are (no collisions).                     *)

HmacSHA256Hex(message, key) ==
    [alg |-> "HMAC-SHA256", enc |-> "hex", key |-> key, message |-> message]

----------------------------------------------------------------------------
(* The signers *)

\* a signer that stamps the signature itself instead of using its argument
ThirdPartyAPIClient_generateSignature_ReadsClock(this, method, path, body, timestamp) ==
    LET stringToSign ==
            method \o <<NL>> \o path \o <<NL>> \o body \o <<NL>> \o toISOString(now)
                   \o <<NL>> \o this.apiKey
    IN  HmacSHA256Hex(stringToSign, this.secretKey)

\* third_party_client.js, ThirdPartyAPIClient.generateSignature
ThirdPartyAPIClient_generateSignature(this, method, path, body, timestamp) ==
    LET stringToSign ==
            method \o <<NL>> \o path \o <<NL>> \o body \o <<NL>> \o timestamp
                   \o <<NL>> \o this.apiKey
    IN  HmacSHA256Hex(stringToSign, this.secretKey)

\* a signer with two segments of the base string in the wrong order
FedshiAPIClient_generateSignature_Swapped(this, method, path, body, timestamp) ==
    LET stringToSign ==
            method \o <<NL>> \o path \o <<NL>> \o timestamp \o <<NL>> \o body
                   \o <<NL>> \o this.apiKey
    IN  HmacSHA256Hex(stringToSign, this.secretKey)

\* app.js, FedshiAPIClient.generateSignature
FedshiAPIClient_generateSignature(this, method, path, body, timestamp) ==
    LET stringToSign ==
            method \o <<NL>> \o path \o <<NL>> \o body \o <<NL>> \o timestamp
                   \o <<NL>> \o this.apiKey
    IN  HmacSHA256Hex(stringToSign, this.secretKey)

\* a signer that leaves the timestamp out of the base string
FedshiGraphQLClient_generateSignature_NoTimestamp(this, method, path, body, timestamp) ==
    LET stringToSign ==
            method \o <<NL>> \o path \o <<NL>> \o body \o <<NL>> \o this.apiKey
    IN  HmacSHA256Hex(stringToSign, this.secretKey)

\* GraphQL quick start, FedshiGraphQLClient.generateSignature
FedshiGraphQLClient_generateSignature(this, method, path, body, timestamp) ==
    LET stringToSign ==
            method \o <<NL>> \o path \o <<NL>> \o body \o <<NL>> \o timestamp
                   \o <<NL>> \o this.apiKey
    IN  HmacSHA256Hex(stringToSign, this.secretKey)

\* THIRD_PARTY_QUICK_START.md, JavaScript ThirdPartyAPIClient.generateSignature:
\* takes no timestamp, reads the clock and returns { signature, timestamp }
QuickStart_generateSignature(this, method, path, body, clock) ==
    LET timestamp == toISOString(clock)
        stringToSign ==
            method \o <<NL>> \o path \o <<NL>> \o body \o <<NL>> \o timestamp
                   \o <<NL>> \o this.apiKey
    IN  [signature |-> HmacSHA256Hex(stringToSign, this.secretKey),
         timestamp |-> timestamp]

\* THIRD_PARTY_QUICK_START.md, Python ThirdPartyAPIClient.generate_signature:
\* returns (signature, timestamp)
generate_signature(self, method, path, body, clock) ==
    LET timestamp == isoformat(clock) \o <<"Z">>
        string_to_sign ==
            method \o <<NL>> \o path \o <<NL>> \o body \o <<NL>> \o timestamp
                   \o <<NL>> \o self.apiKey
    IN  [signature |-> HmacSHA256Hex(string_to_sign, self.secretKey),
         timestamp |-> timestamp]

\* GraphQL quick start, Python export_order_shipment_receipt: the signing
\* lines of the example (api_key and secret_key are its local variables)
export_order_shipment_receipt_sign(self, method, path, body, clock) ==
    LET timestamp == isoformat(clock) \o <<"Z">>
        string_to_sign ==
            method \o <<NL>> \o path \o <<NL>> \o body \o <<NL>> \o timestamp
    IN  [signature |-> HmacSHA256Hex(string_to_sign, self.secretKey),
         timestamp |-> timestamp]

----------------------------------------------------------------------------
(* Construction *)

BaseUrls == {<<"https://admin-api.app.fedshi.com">>}

\* The constructors only store their three arguments.
ThirdPartyAPIClient(apiKey, secret, baseUrl) ==
    [class |-> "ThirdPartyAPIClient",
     apiKey |-> apiKey, secretKey |-> secret, baseUrl |-> baseUrl]

FedshiAPIClient(apiKey, secretKey, baseUrl) ==
    [class |-> "FedshiAPIClient",
     apiKey |-> apiKey, secretKey |-> secretKey, baseUrl |-> baseUrl]

\* baseUrl of this client is the URL it posts to
FedshiGraphQLClient(apiKey, secretKey, baseUrl) ==
    [class |-> "FedshiGraphQLClient",
     apiKey |-> apiKey, secretKey |-> secretKey, baseUrl |-> baseUrl]

\* the default value of FedshiGraphQLClient's baseUrl parameter
DefaultGraphQLUrl(origin) == origin \o <<"/graphql/third-party">>

\* the quick start guide's ThirdPartyAPIClient (jwtToken starts null)
QuickStartClient(apiKey, secretKey, baseUrl) ==
    [class |-> "QuickStartClient",
     apiKey |-> apiKey, secretKey |-> secretKey, baseUrl |-> baseUrl]

\* the credential pairs the clients of the processes are built with
Credentials == { <<<<"key1">>, <<"secretA">>>>, <<<<"key2">>, <<"secretB">>>> }

Instances ==
    UNION { { ThirdPartyAPIClient(c[1], c[2], u), FedshiAPIClient(c[1], c[2], u),
              FedshiGraphQLClient(c[1], c[2], DefaultGraphQLUrl(u)),
              QuickStartClient(c[1], c[2], u) } :
            <<c, u>> \in Credentials \X BaseUrls }

\* index.html, which is not among the sources: the file inputs and the
\* file-card buttons as the page is loaded.  The README has file operations
\* enabled only once Fedshi is authenticated.
FileOperationsEnabledAtLoad == FALSE

\* the local variables of processFedshiFiles before it is invoked
NoBatch ==
    [pc |-> "idle", orderIds |-> << >>, index |-> 0,
     processedCount |-> 0, failedCount |-> 0, attempted |-> << >>,
     outcome |-> "none", error |-> EmptyString]

\* FedshiIntegrationApp.constructor
NewApp ==
    [init |-> "loading",
     fedshiJwtToken |-> Undefined,
     authenticationStatus |-> [fedshi |-> FALSE],
     fileOperationsEnabled |-> FileOperationsEnabledAtLoad,
     processingResults |-> [failed |-> << >>, success |-> << >>],
     batch |-> NoBatch]

----------------------------------------------------------------------------
(* Direct invocations of the signers, on instances built for the purpose.   *)
(* sigs keeps the last invocation: the inputs and what was returned.        *)

Invocation(signer, this, method, path, body, timestamp, signature) ==
    [signer |-> signer, apiKey |-> this.apiKey, secretKey |-> this.secretKey,
     method |-> method, path |-> path, body |-> body,
     timestamp |-> timestamp, signature |-> signature]

Record(inv) == sigs' = <<inv>>

SignNodeSDK ==
    \E k \in ApiKeys, s \in Secrets, u \in BaseUrls,
       m \in Methods, p \in Paths, b \in Bodies, t \in Timestamps :
        LET this == ThirdPartyAPIClient(k, s, u) IN
        /\ Record(Invocation("ThirdPartyAPIClient", this, m, p, b, t,
                ThirdPartyAPIClient_generateSignature(this, m, p, b, t)))
        /\ UNCHANGED <<now, client, app, jwtToken, calls>>

SignBrowserTool ==
    \E k \in ApiKeys, s \in Secrets, u \in BaseUrls,
       m \in Methods, p \in Paths, b \in Bodies, t \in Timestamps :
        LET this == FedshiAPIClient(k, s, u) IN
        /\ Record(Invocation("FedshiAPIClient", this, m, p, b, t,
                FedshiAPIClient_generateSignature(this, m, p, b, t)))
        /\ UNCHANGED <<now, client, app, jwtToken, calls>>

SignGraphQLClient ==
    \E k \in ApiKeys, s \in Secrets, u \in BaseUrls,
       m \in Methods, p \in Paths, b \in Bodies, t \in Timestamps :
        LET this == FedshiGraphQLClient(k, s, u) IN
        /\ Record(Invocation("FedshiGraphQLClient", this, m, p, b, t,
                FedshiGraphQLClient_generateSignature(this, m, p, b, t)))
        /\ UNCHANGED <<now, client, app, jwtToken, calls>>

SignQuickStartJS ==
    \E k \in ApiKeys, s \in Secrets, u \in BaseUrls,
       m \in Methods, p \in Paths, b \in Bodies :
        LET this == QuickStartClient(k, s, u)
            r == QuickStart_generateSignature(this, m, p, b, now) IN
        /\ Record(Invocation("QuickStartClient", this, m, p, b,
                             r.timestamp, r.signature))
        /\ UNCHANGED <<now, client, app, jwtToken, calls>>

SignQuickStartPython ==
    \E k \in ApiKeys, s \in Secrets, u \in BaseUrls,
       m \in Methods, p \in Paths, b \in Bodies :
        LET self == QuickStartClient(k, s, u)
            r == generate_signature(self, m, p, b, now) IN
        /\ Record(Invocation("generate_signature", self, m, p, b,
                             r.timestamp, r.signature))
        /\ UNCHANGED <<now, client, app, jwtToken, calls>>

SignPythonExample ==
    \E k \in ApiKeys, s \in Secrets, u \in BaseUrls,
       m \in Methods, p \in Paths, b \in Bodies :
        LET self == QuickStartClient(k, s, u)
            r == export_order_shipment_receipt_sign(self, m, p, b, now) IN
        /\ Record(Invocation("export_order_shipment_receipt", self, m, p, b,
                             r.timestamp, r.signature))
        /\ UNCHANGED <<now, client, app, jwtToken, calls>>

\* time passes
Tick ==
    /\ now < MaxClock
    /\ now' = now + 1
    /\ UNCHANGED <<client, app, jwtToken, calls, sigs>>

InitSign ==
    /\ now = 0
    /\ client = FedshiAPIClient(<<"key1">>, <<"secretA">>,
                                <<"https://admin-api.app.fedshi.com">>)
    /\ app = NewApp
    /\ jwtToken = Undefined
    /\ calls = << >>
    /\ sigs = << >>

NextSign ==
    \/ SignNodeSDK
    \/ SignBrowserTool
    \/ SignGraphQLClient
    \/ SignQuickStartJS
    \/ SignQuickStartPython
    \/ SignPythonExample
    \/ Tick

SpecSign == InitSign /\ [][NextSign]_vars

----------------------------------------------------------------------------
(* HTTP: requests as they are handed to fetch, responses as fetch resolves  *)
(* them.  A URL is the base URL followed by the path.                       *)

\* the body argument of fetch
NoBody == [kind |-> "none", text |-> EmptyString, file |-> Absent]
StringBody(text) == [kind |-> "string", text |-> text, file |-> Absent]
\* a FormData with the parts operations, map and 0
FormData(operations, file) ==
    [kind |-> "formdata", text |-> operations, file |-> file]

Request(method, url, headers, body) ==
    [method |-> method, url |-> url, headers |-> headers, body |-> body]

Headers(apiKey, signature, timestamp, contentType, authorization) ==
    [XAPIKey |-> apiKey, XAPISignature |-> signature, XAPITimestamp |-> timestamp,
     ContentType |-> contentType, Authorization |-> authorization]

ApplicationJson == <<"application/json">>
Bearer(token) == <<"Bearer ">> \o token

Tokens == {<<"jwtA">>, <<"jwtB">>}
StatusCodes == {200, 401}
StatusString(status) == IF status = 200 THEN "200" ELSE "401"
StatusText(status) == IF status = 200 THEN "OK" ELSE "Unauthorized"

\* response.ok
Ok(response) == response.status >= 200 /\ response.status <= 299

NoErrors == [present |-> FALSE, items |-> << >>]
ErrorsArray(items) == [present |-> TRUE, items |-> items]
NoData == [present |-> FALSE, Token |-> Undefined, result |-> Undefined]
Data(token, result) == [present |-> TRUE, Token |-> token, result |-> result]

\* a parsed JSON body: the members the clients read
Json(token, data, errors, error) ==
    [Token |-> token, data |-> data, errors |-> errors, error |-> error]

Response(status, json) == [network |-> "ok", status |-> status, json |-> json]
\* fetch rejects: no response at all
NetworkFailure == [network |-> "failed", status |-> 0,
                   json |-> Json(Undefined, NoData, NoErrors, Undefined)]

ErrorBody == Json(Undefined, NoData, NoErrors, <<"invalid signature">>)

\* what the login endpoint may answer
LoginResponses ==
    { Response(200, Json(t, NoData, NoErrors, Undefined)) : t \in Tokens }
    \cup { Response(200, Json(Undefined, Data(<<"jwtA">>, Undefined), NoErrors, Undefined)), Response(200, Json(Undefined, NoData, NoErrors, Undefined)),
           Response(401, ErrorBody),
           NetworkFailure }

GraphQLErrors == << [message |-> <<"first error">>], [message |-> <<"second error">>] >>

\* what the GraphQL endpoint may answer
GraphQLResponses ==
    { Response(200, Json(Undefined, Data(Undefined, <<"result">>), NoErrors, Undefined)),
      Response(200, Json(Undefined, NoData, ErrorsArray(GraphQLErrors), Undefined)),
      Response(200, Json(Undefined, Data(Undefined, <<"result">>),
                         ErrorsArray(GraphQLErrors), Undefined)),
      Response(401, ErrorBody),
      NetworkFailure }

\* what the REST endpoints may answer
RestResponses ==
    { Response(200, Json(Undefined, Data(Undefined, <<"receipt">>), NoErrors, Undefined)),
      Response(401, ErrorBody),
      Response(401, Json(Undefined, NoData, NoErrors, Undefined)),
      NetworkFailure }

----------------------------------------------------------------------------
(* Invocations.  An invocation runs to its fetch in one step (there is no   *)
(* await before it) and resumes in a second step when fetch settles.        *)

\* at: the instant at which the invocation built its request (or ended)
Call(op, requests) ==
    [op |-> op, requests |-> requests, pc |-> "fetch", responses |-> << >>,
     outcome |-> "pending", error |-> EmptyString, at |-> now]

\* an invocation that ended without a fetch
Ended(op, outcome, error) ==
    [op |-> op, requests |-> << >>, pc |-> "done", responses |-> << >>,
     outcome |-> outcome, error |-> error, at |-> now]

Returned(call, response) ==
    [call EXCEPT !.pc = "done", !.responses = <<response>>, !.outcome = "returned"]

Threw(call, response, error) ==
    [call EXCEPT !.pc = "done", !.responses = <<response>>, !.outcome = "threw",
                 !.error = error]

Pending(i) == i \in DOMAIN calls /\ calls[i].pc = "fetch"

\* fetch rejected
FetchFailed == <<"TypeError: fetch failed">>
TypeErrorMessage == <<"TypeError: cannot read properties of undefined">>

\* JSON.stringify of a request body of the REST API
JSONstringify(body) == <<"{">> \o body \o <<"}">>

----------------------------------------------------------------------------
(* ThirdPartyAPIClient (Node SDK) *)

\* the arguments makeRequest is called with: by exportOrderShipmentReceipt,
\* by getUsageStats, and directly with a body
MakeRequestArguments ==
    { [method |-> <<"GET">>,
       path |-> <<"/api/v1/third-party/export-order-shipment-receipt/", "ABC123">>,
       body |-> Undefined],
      [method |-> <<"GET">>, path |-> <<"/api/v1/third-party/usage-stats">>,
       body |-> Undefined],
      [method |-> <<"POST">>, path |-> <<"/api/v1/third-party/admin/login">>,
       body |-> <<"\"email\":\"a@b.c\",\"password\":\"pw\"">>] }

\* a makeRequest that keeps the timestamp to sign on the instance, where a
\* call still in flight has left its own
ThirdPartyAPIClient_makeRequest_SharedTimestamp(this, method, path, body, clock) ==
    LET timestamp == toISOString(clock)
        inFlight == {i \in DOMAIN calls : calls[i].pc = "fetch"}
        shared == IF inFlight = {} THEN timestamp
                  ELSE calls[CHOOSE i \in inFlight : TRUE].requests[1].headers.XAPITimestamp
        bodyString == IF body # Undefined THEN JSONstringify(body) ELSE EmptyString
        signature ==
            ThirdPartyAPIClient_generateSignature(this, method, path, bodyString, shared)
        headers == Headers(this.apiKey, signature, timestamp, ApplicationJson, Absent)
        url == this.baseUrl \o path
    IN  Request(method, url, headers,
                IF bodyString # EmptyString THEN StringBody(bodyString) ELSE NoBody)

\* a makeRequest that signs before the body is serialized
ThirdPartyAPIClient_makeRequest_SignsEmptyBody(this, method, path, body, clock) ==
    LET timestamp == toISOString(clock)
        bodyString == IF body # Undefined THEN JSONstringify(body) ELSE EmptyString
        signature ==
            ThirdPartyAPIClient_generateSignature(this, method, path, EmptyString, timestamp)
        headers == Headers(this.apiKey, signature, timestamp, ApplicationJson, Absent)
        url == this.baseUrl \o path
    IN  Request(method, url, headers,
                IF bodyString # EmptyString THEN StringBody(bodyString) ELSE NoBody)

\* makeRequest up to and including its call of fetch
ThirdPartyAPIClient_makeRequest(this, method, path, body, clock) ==
    LET timestamp == toISOString(clock)
        bodyString == IF body # Undefined THEN JSONstringify(body) ELSE EmptyString
        signature ==
            ThirdPartyAPIClient_generateSignature(this, method, path, bodyString, timestamp)
        headers == Headers(this.apiKey, signature, timestamp, ApplicationJson, Absent)
        url == this.baseUrl \o path
    IN  Request(method, url, headers,
                IF bodyString # EmptyString THEN StringBody(bodyString) ELSE NoBody)

MakeRequest ==
    /\ client.class = "ThirdPartyAPIClient"
    /\ Len(calls) < MaxCalls
    /\ \E a \in MakeRequestArguments :
          calls' = Append(calls, Call("makeRequest",
                      <<ThirdPartyAPIClient_makeRequest(client, a.method, a.path,
                                                        a.body, now)>>))
    /\ UNCHANGED <<now, client, app, jwtToken, sigs>>

\* a makeRequest that sends the request once more when it is refused
ThirdPartyAPIClient_makeRequest_resume_Retries(call, response) ==
    IF response.network = "failed" THEN Threw(call, response, FetchFailed)
    ELSE IF ~Ok(response)
         THEN IF Len(call.requests) < 2
              THEN [call EXCEPT !.requests = Append(@, @[1])]
              ELSE Threw(call, response, <<"API request failed">>)
         ELSE Returned(call, response)

\* makeRequest after fetch has settled
ThirdPartyAPIClient_makeRequest_resume(call, response) ==
    IF response.network = "failed" THEN Threw(call, response, FetchFailed)
    ELSE IF ~Ok(response)
         THEN LET errorData == response.json
              IN  Threw(call, response,
                        <<"API request failed: ", StatusString(response.status), " ",
                          StatusText(response.status), " - ">>
                        \o (IF errorData.error # Undefined THEN errorData.error
                            ELSE <<"Unknown error">>))
         ELSE Returned(call, response)

MakeRequestSettles ==
    \E i \in DOMAIN calls, response \in RestResponses :
        /\ Pending(i)
        /\ calls[i].op = "makeRequest"
        /\ calls' = [calls EXCEPT ![i] =
                        ThirdPartyAPIClient_makeRequest_resume(calls[i], response)]
        /\ UNCHANGED <<now, client, app, jwtToken, sigs>>

----------------------------------------------------------------------------
(* Browser tool: FedshiIntegrationApp (window.app) and its FedshiAPIClient  *)

\* what the user has typed into fedshiUsername and fedshiPassword
LoginInputs ==
    { [username |-> <<"admin@example.com">>, password |-> <<"admin_password">>],
      [username |-> EmptyString, password |-> <<"admin_password">>],
      [username |-> <<"admin@example.com">>, password |-> EmptyString] }

\* a JavaScript condition on a string or null: null, undefined and "" are falsy
Truthy(v) == v # Undefined /\ v # EmptyString

\* this.fedshiClient is null until loadConfiguration has built it
FedshiClientIsNull == app.init # "ready"

\* an updateAuthenticationStatus that enables the controls whatever the flag
updateAuthenticationStatus_AlwaysEnables(a) ==
    [a EXCEPT !.fileOperationsEnabled = TRUE]

\* updateAuthenticationStatus: the file inputs and the file-card buttons
updateAuthenticationStatus(a) ==
    [a EXCEPT !.fileOperationsEnabled = a.authenticationStatus.fedshi]

\* init after loadConfiguration has settled: the client is built, the
\* listeners are set up and the status is refreshed; or the error is shown
InitSettles ==
    /\ client.class = "FedshiAPIClient"
    /\ app.init = "loading"
    /\ \E configOk \in BOOLEAN :
          app' = IF configOk
                 THEN updateAuthenticationStatus([app EXCEPT !.init = "ready"])
                 ELSE [app EXCEPT !.init = "failed"]
    /\ UNCHANGED <<now, client, jwtToken, calls, sigs>>

LoginPath == <<"/api/v1/third-party/admin/login">>
GraphQLPath == <<"/graphql/third-party">>

\* an authenticate that presents the secret itself
FedshiAPIClient_authenticate_SendsSecret(this, username, password, clock) ==
    LET timestamp == toISOString(clock)
        method == <<"POST">>
        path == LoginPath
        body == <<"{\"email\":\"">> \o username \o <<"\",\"password\":\"">>
                    \o this.secretKey \o <<"\"}">>
        signature == FedshiAPIClient_generateSignature(this, method, path, body, timestamp)
    IN  Request(<<"POST">>, this.baseUrl \o path,
                Headers(this.apiKey, signature, timestamp, ApplicationJson, Absent),
                StringBody(body))

\* authenticate up to and including its call of fetch
FedshiAPIClient_authenticate(this, username, password, clock) ==
    LET timestamp == toISOString(clock)
        method == <<"POST">>
        path == LoginPath
        body == <<"{\"email\":\"">> \o username \o <<"\",\"password\":\"">>
                    \o password \o <<"\"}">>
        signature == FedshiAPIClient_generateSignature(this, method, path, body, timestamp)
    IN  Request(<<"POST">>, this.baseUrl \o path,
                Headers(this.apiKey, signature, timestamp, ApplicationJson, Absent),
                StringBody(body))

\* loginFedshi up to its first await
\* a loginFedshi without the check of its two inputs
LoginFedshi_SendsWhatItIsGiven ==
    /\ client.class = "FedshiAPIClient"
    /\ Len(calls) < MaxCalls
    /\ \E in \in LoginInputs :
          IF FedshiClientIsNull
          THEN /\ calls' = Append(calls, Ended("loginFedshi", "threw", TypeErrorMessage))
               /\ app' = updateAuthenticationStatus(
                            [app EXCEPT !.authenticationStatus.fedshi = FALSE])
          ELSE /\ calls' = Append(calls, Call("loginFedshi",
                              <<FedshiAPIClient_authenticate(client, in.username,
                                                             in.password, now)>>))
               /\ app' = app
    /\ UNCHANGED <<now, client, jwtToken, sigs>>

LoginFedshi ==
    /\ client.class = "FedshiAPIClient"
    /\ Len(calls) < MaxCalls
    /\ \E in \in LoginInputs :
          IF ~Truthy(in.username) \/ ~Truthy(in.password)
          THEN /\ calls' = Append(calls, Ended("loginFedshi", "skipped", EmptyString))
               /\ app' = app
          ELSE IF FedshiClientIsNull
          THEN \* this.fedshiClient.authenticate throws inside the try block
               /\ calls' = Append(calls, Ended("loginFedshi", "threw", TypeErrorMessage))
               /\ app' = updateAuthenticationStatus(
                            [app EXCEPT !.authenticationStatus.fedshi = FALSE])
          ELSE /\ calls' = Append(calls, Call("loginFedshi",
                              <<FedshiAPIClient_authenticate(client, in.username,
                                                             in.password, now)>>))
               /\ app' = app
    /\ UNCHANGED <<now, client, jwtToken, sigs>>

\* authenticate after fetch has settled: what it gives loginFedshi
FedshiAPIClient_authenticate_resume(call, response) ==
    IF response.network = "failed" THEN Threw(call, response, FetchFailed)
    ELSE IF ~Ok(response)
         THEN Threw(call, response,
                    <<"Authentication failed: ", StatusString(response.status)>>)
         ELSE Returned(call, response)

\* a loginFedshi without its catch block: what authenticate throws leaves
\* the handler at once
loginFedshi_resume_Rethrows(a, call) ==
    LET loginResult == call.responses[1].json
    IN  IF call.outcome = "threw" THEN a
        ELSE updateAuthenticationStatus(
                 IF Truthy(loginResult.Token)
                 THEN [a EXCEPT !.fedshiJwtToken = loginResult.Token,
                                !.authenticationStatus.fedshi = TRUE]
                 ELSE [a EXCEPT !.authenticationStatus.fedshi = FALSE])

\* a loginFedshi that takes any 2xx answer for a successful login
loginFedshi_resume_TrustsAnyAnswer(a, call) ==
    LET loginResult == call.responses[1].json
        a1 == IF call.outcome = "returned"
              THEN [a EXCEPT !.fedshiJwtToken = loginResult.Token,
                             !.authenticationStatus.fedshi = TRUE]
              ELSE [a EXCEPT !.authenticationStatus.fedshi = FALSE]
    IN  updateAuthenticationStatus(a1)

\* a loginFedshi that drops the session when a login fails
loginFedshi_resume_ClearsToken(a, call) ==
    LET loginResult == call.responses[1].json
        a1 == IF call.outcome = "returned" /\ Truthy(loginResult.Token)
              THEN [a EXCEPT !.fedshiJwtToken = loginResult.Token,
                             !.authenticationStatus.fedshi = TRUE]
              ELSE [a EXCEPT !.fedshiJwtToken = Undefined,
                             !.authenticationStatus.fedshi = FALSE]
    IN  updateAuthenticationStatus(a1)

\* a loginFedshi that keeps the first token it was given
loginFedshi_resume_KeepsFirstToken(a, call) ==
    LET loginResult == call.responses[1].json
        a1 == IF call.outcome = "returned" /\ Truthy(loginResult.Token)
              THEN [a EXCEPT !.fedshiJwtToken =
                                 IF Truthy(a.fedshiJwtToken) THEN a.fedshiJwtToken
                                 ELSE loginResult.Token,
                             !.authenticationStatus.fedshi = TRUE]
              ELSE [a EXCEPT !.authenticationStatus.fedshi = FALSE]
    IN  updateAuthenticationStatus(a1)

\* loginFedshi after authenticate has settled
loginFedshi_resume(a, call) ==
    LET loginResult == call.responses[1].json
        a1 == IF call.outcome = "returned" /\ Truthy(loginResult.Token)
              THEN [a EXCEPT !.fedshiJwtToken = loginResult.Token,
                             !.authenticationStatus.fedshi = TRUE]
              ELSE [a EXCEPT !.authenticationStatus.fedshi = FALSE]
    IN  updateAuthenticationStatus(a1)

LoginFedshiSettles ==
    \E i \in DOMAIN calls, response \in LoginResponses :
        /\ Pending(i)
        /\ calls[i].op = "loginFedshi"
        /\ LET call == FedshiAPIClient_authenticate_resume(calls[i], response)
           IN  /\ calls' = [calls EXCEPT ![i] = call]
               /\ app' = loginFedshi_resume(app, call)
        /\ UNCHANGED <<now, client, jwtToken, sigs>>

\* JSON.stringify({ query, variables })
GraphQLEnvelope(query, variables) ==
    <<"{\"query\":\"">> \o query \o <<"\",\"variables\":">> \o variables \o <<"}">>

ExportQuery == <<"query ExportOrderShipmentReceipt">>
OrderShipmentIDs == {<<"ABC123456789">>}

\* a makeGraphQLRequest that never attaches the token
FedshiAPIClient_makeGraphQLRequest_NoBearer(this, theApp, query, variables, clock) ==
    LET timestamp == toISOString(clock)
        method == <<"POST">>
        path == GraphQLPath
        body == GraphQLEnvelope(query, variables)
        signature == FedshiAPIClient_generateSignature(this, method, path, body, timestamp)
    IN  Request(<<"POST">>, this.baseUrl \o path,
                Headers(this.apiKey, signature, timestamp, ApplicationJson, Absent),
                StringBody(body))

\* makeGraphQLRequest up to and including its call of fetch; theApp is
\* window.app
FedshiAPIClient_makeGraphQLRequest(this, theApp, query, variables, clock) ==
    LET timestamp == toISOString(clock)
        method == <<"POST">>
        path == GraphQLPath
        body == GraphQLEnvelope(query, variables)
        signature == FedshiAPIClient_generateSignature(this, method, path, body, timestamp)
        authorization == IF Truthy(theApp.fedshiJwtToken)
                         THEN Bearer(theApp.fedshiJwtToken) ELSE Absent
    IN  Request(<<"POST">>, this.baseUrl \o path,
                Headers(this.apiKey, signature, timestamp, ApplicationJson, authorization),
                StringBody(body))

\* exportOrderShipmentReceipt, which goes through makeGraphQLRequest
ExportOrderShipmentReceipt ==
    /\ client.class = "FedshiAPIClient"
    /\ ~FedshiClientIsNull
    /\ Len(calls) < MaxCalls
    /\ \E id \in OrderShipmentIDs :
          calls' = Append(calls, Call("exportOrderShipmentReceipt",
                      <<FedshiAPIClient_makeGraphQLRequest(client, app, ExportQuery,
                            <<"{\"ID\":\"">> \o id \o <<"\"}">>, now)>>))
    /\ UNCHANGED <<now, client, app, jwtToken, sigs>>

RECURSIVE JoinErrors(_)
JoinErrors(errors) ==
    IF errors = << >> THEN << >>
    ELSE <<"{\"message\":\"">> \o Head(errors).message \o <<"\"}">>
         \o (IF Tail(errors) = << >> THEN << >> ELSE <<",">> \o JoinErrors(Tail(errors)))

\* JSON.stringify(result.errors): the whole array
JSONstringifyErrors(errors) == <<"[">> \o JoinErrors(errors) \o <<"]">>

\* makeGraphQLRequest after fetch has settled, and exportOrderShipmentReceipt
\* reading result.ExportOrderShipmentReceipt
FedshiAPIClient_makeGraphQLRequest_resume(call, response) ==
    IF response.network = "failed" THEN Threw(call, response, FetchFailed)
    ELSE IF ~Ok(response)
         THEN Threw(call, response,
                    <<"GraphQL request failed: ", StatusString(response.status)>>)
    ELSE LET result == response.json IN
         IF result.errors.present
         THEN Threw(call, response,
                    <<"GraphQL Error: ">> \o
                    (IF result.errors.items = << >> THEN <<"[]">>
                     ELSE JSONstringifyErrors(result.errors.items)))
         ELSE IF ~result.data.present
         THEN Threw(call, response, TypeErrorMessage)
         ELSE Returned(call, response)

ExportOrderShipmentReceiptSettles ==
    \E i \in DOMAIN calls, response \in GraphQLResponses :
        /\ Pending(i)
        /\ calls[i].op = "exportOrderShipmentReceipt"
        /\ calls' = [calls EXCEPT ![i] =
                        FedshiAPIClient_makeGraphQLRequest_resume(calls[i], response)]
        /\ UNCHANGED <<now, client, app, jwtToken, sigs>>

\* the CSV files the user may pick, as parseCSVFile reads them: the
\* shipment IDs of the valid data rows and the courier of the last one
\* the files handed to processCSVAndCreateShipmentPack, as
\* csvContent.split('\n') and line.split(',') cut them: a line is the
\* sequence of its columns, and the empty file is one line of one empty column
CsvFiles ==
    { [name |-> <<"pack.csv">>,
       lines |-> << <<"ShipmentID", "CourierID">>, <<"S1", "7">>, <<" ">>, <<" S2", "7 ">> >>],
      [name |-> <<"header-only.csv">>, lines |-> << <<"ShipmentID", "CourierID">> >>],
      [name |-> <<"empty.csv">>, lines |-> << <<"">> >>],
      [name |-> <<"no-header.csv">>, lines |-> << <<"S1", "7">> >>],
      [name |-> <<"blank-rows.csv">>,
       lines |-> << <<"ShipmentID", "CourierID">>, <<"">>, <<" ">> >>],
      [name |-> <<"one-column.csv">>,
       lines |-> << <<"ShipmentID", "CourierID">>, <<"S1">>, <<"S2">> >>],
      [name |-> <<"no-courier.csv">>,
       lines |-> << <<"ShipmentID", "CourierID">>, <<"S1", " ">>, <<"S2", "">> >>],
      [name |-> <<"no-id.csv">>,
       lines |-> << <<"ShipmentID", "CourierID">>, <<"", "7">>, <<" ", "7">> >>] }

\* String.prototype.trim on a column
trim(column) ==
    CASE column \in {"", " "} -> ""
      [] column = " S2" -> "S2"
      [] column = "7 " -> "7"
      [] OTHER -> column

\* a parseCSVFile that takes the first line for data
parseCSVFile_KeepsHeader(lines) ==
    LET rows == SelectSeq(lines,
                    LAMBDA l : Len(l) >= 2 /\ trim(l[1]) # "" /\ trim(l[2]) # "")
    IN  [shipmentIDs |-> [k \in 1..Len(rows) |-> trim(rows[k][1])],
         courierID |-> IF rows = << >> THEN <<"null">>
                       ELSE <<trim(rows[Len(rows)][2])>>]

\* parseCSVFile: the lines after the first that have two columns or more, of
\* which the first two are not blank
parseCSVFile(lines) ==
    LET rows == SelectSeq(Tail(lines),
                    LAMBDA l : Len(l) >= 2 /\ trim(l[1]) # "" /\ trim(l[2]) # "")
    IN  [shipmentIDs |-> [k \in 1..Len(rows) |-> trim(rows[k][1])],
         courierID |-> IF rows = << >> THEN <<"null">>
                       ELSE <<trim(rows[Len(rows)][2])>>]

AddShipmentPackQuery == <<"mutation AddShipmentPackV2">>

\* a processCSVAndCreateShipmentPack that stamps every request alike
FedshiAPIClient_processCSVAndCreateShipmentPack_FixedTimestamp(this, theApp, csvData, clock) ==
    LET variables == <<"{\"request\":{\"OrderShipmentIDs\":[">> \o csvData.shipmentIDs
                        \o <<"],\"DeliveryCourierID\":">> \o csvData.courierID
                        \o <<",\"Type\":\"shipping\"}}">>
        timestamp == toISOString(0)
        method == <<"POST">>
        path == GraphQLPath
        body == GraphQLEnvelope(AddShipmentPackQuery, variables)
        signature == FedshiAPIClient_generateSignature(this, method, path, body, timestamp)
        authorization == IF Truthy(theApp.fedshiJwtToken)
                         THEN Bearer(theApp.fedshiJwtToken) ELSE Absent
    IN  Request(<<"POST">>, this.baseUrl \o <<"/graphql/third-party">>,
                Headers(this.apiKey, signature, timestamp, ApplicationJson, authorization),
                StringBody(body))

\* processCSVAndCreateShipmentPack from the moment parseCSVFile has resolved
\* up to and including its call of fetch
FedshiAPIClient_processCSVAndCreateShipmentPack(this, theApp, csvData, clock) ==
    LET variables == <<"{\"request\":{\"OrderShipmentIDs\":[">> \o csvData.shipmentIDs
                        \o <<"],\"DeliveryCourierID\":">> \o csvData.courierID
                        \o <<",\"Type\":\"shipping\"}}">>
        timestamp == toISOString(clock)
        method == <<"POST">>
        path == GraphQLPath
        body == GraphQLEnvelope(AddShipmentPackQuery, variables)
        signature == FedshiAPIClient_generateSignature(this, method, path, body, timestamp)
        authorization == IF Truthy(theApp.fedshiJwtToken)
                         THEN Bearer(theApp.fedshiJwtToken) ELSE Absent
    IN  Request(<<"POST">>, this.baseUrl \o <<"/graphql/third-party">>,
                Headers(this.apiKey, signature, timestamp, ApplicationJson, authorization),
                StringBody(body))

\* processCSVAndCreateShipmentPack is invoked and awaits parseCSVFile
ProcessCSVAndCreateShipmentPack ==
    /\ client.class = "FedshiAPIClient"
    /\ ~FedshiClientIsNull
    /\ Len(calls) < MaxCalls
    /\ calls' = Append(calls, [Call("processCSVAndCreateShipmentPack", << >>)
                                 EXCEPT !.pc = "parseCSVFile"])
    /\ UNCHANGED <<now, client, app, jwtToken, sigs>>

\* parseCSVFile has resolved
ProcessCSVParsed ==
    \E i \in DOMAIN calls, file \in CsvFiles :
        /\ calls[i].pc = "parseCSVFile"
        /\ LET csvData == parseCSVFile(file.lines)
           IN  calls' = [calls EXCEPT ![i] =
                  IF Len(csvData.shipmentIDs) = 0
                  THEN Ended("processCSVAndCreateShipmentPack", "threw",
                             <<"No shipment IDs found in CSV file">>)
                  ELSE Call("processCSVAndCreateShipmentPack",
                            <<FedshiAPIClient_processCSVAndCreateShipmentPack(
                                  client, app, csvData, now)>>)]
        /\ UNCHANGED <<now, client, app, jwtToken, sigs>>

\* processCSVAndCreateShipmentPack after fetch has settled (response.ok is
\* not looked at)
FedshiAPIClient_processCSVAndCreateShipmentPack_resume(call, response) ==
    IF response.network = "failed" THEN Threw(call, response, FetchFailed)
    ELSE LET result == response.json IN
         IF result.errors.present
         THEN IF result.errors.items = << >>
              THEN Threw(call, response, TypeErrorMessage)
              ELSE LET firstError == result.errors.items[1]
                   IN  Threw(call, response,
                             IF Truthy(firstError.message) THEN firstError.message
                             ELSE <<"Unknown GraphQL error">>)
         ELSE IF ~result.data.present
         THEN Threw(call, response, TypeErrorMessage)
         ELSE Returned(call, response)

ProcessCSVSettles ==
    \E i \in DOMAIN calls, response \in GraphQLResponses :
        /\ Pending(i)
        /\ calls[i].op = "processCSVAndCreateShipmentPack"
        /\ calls' = [calls EXCEPT ![i] =
              FedshiAPIClient_processCSVAndCreateShipmentPack_resume(calls[i], response)]
        /\ UNCHANGED <<now, client, app, jwtToken, sigs>>

----------------------------------------------------------------------------
(* FedshiGraphQLClient ("Complete JavaScript Client" of the GraphQL guide)   *)

\* makeRequest up to and including its call of fetch
FedshiGraphQLClient_makeRequest(this, query, variables, clock) ==
    LET timestamp == toISOString(clock)
        method == <<"POST">>
        path == GraphQLPath
        body == GraphQLEnvelope(query, variables)
        signature ==
            FedshiGraphQLClient_generateSignature(this, method, path, body, timestamp)
    IN  Request(<<"POST">>, this.baseUrl,
                Headers(this.apiKey, signature, timestamp, ApplicationJson, Absent),
                StringBody(body))

GraphQLClientExport ==
    /\ client.class = "FedshiGraphQLClient"
    /\ Len(calls) < MaxCalls
    /\ \E id \in OrderShipmentIDs :
          calls' = Append(calls, Call("FedshiGraphQLClient.exportOrderShipmentReceipt",
                      <<FedshiGraphQLClient_makeRequest(client, ExportQuery,
                            <<"{\"ID\":\"">> \o id \o <<"\"}">>, now)>>))
    /\ UNCHANGED <<now, client, app, jwtToken, sigs>>

\* makeRequest after fetch has settled (response.ok is not looked at), and
\* exportOrderShipmentReceipt reading result.ExportOrderShipmentReceipt
FedshiGraphQLClient_makeRequest_resume(call, response) ==
    IF response.network = "failed" THEN Threw(call, response, FetchFailed)
    ELSE LET result == response.json IN
         IF result.errors.present
         THEN Threw(call, response,
                    <<"GraphQL Error: ">> \o
                    (IF result.errors.items = << >> THEN <<"[]">>
                     ELSE JSONstringifyErrors(result.errors.items)))
         ELSE IF ~result.data.present
         THEN Threw(call, response, TypeErrorMessage)
         ELSE Returned(call, response)

GraphQLClientSettles ==
    \E i \in DOMAIN calls, response \in GraphQLResponses :
        /\ Pending(i)
        /\ calls[i].op \in {"FedshiGraphQLClient.exportOrderShipmentReceipt",
                            "uploadShipmentPack"}
        /\ calls' = [calls EXCEPT ![i] =
                        FedshiGraphQLClient_makeRequest_resume(calls[i], response)]
        /\ UNCHANGED <<now, client, app, jwtToken, sigs>>

UploadQuery == <<"mutation UploadCSV">>
UploadFiles == {<<"raw bytes of pack.csv">>}

\* an uploadShipmentPack that signs the bytes of the file and labels the
\* form as JSON
FedshiGraphQLClient_uploadShipmentPack_SignsFile(this, file, clock) ==
    LET timestamp == toISOString(clock)
        method == <<"POST">>
        path == GraphQLPath
        signature ==
            FedshiGraphQLClient_generateSignature(this, method, path, file, timestamp)
        formData == FormData(GraphQLEnvelope(UploadQuery, <<"{\"file\":null}">>), file)
    IN  Request(<<"POST">>, this.baseUrl,
                Headers(this.apiKey, signature, timestamp, ApplicationJson, Absent),
                formData)

\* uploadShipmentPack up to and including its call of fetch
FedshiGraphQLClient_uploadShipmentPack(this, file, clock) ==
    LET variables == <<"{\"file\":null}">>
        timestamp == toISOString(clock)
        method == <<"POST">>
        path == GraphQLPath
        body == GraphQLEnvelope(UploadQuery, variables)
        signature ==
            FedshiGraphQLClient_generateSignature(this, method, path, body, timestamp)
        formData == FormData(GraphQLEnvelope(UploadQuery, <<"{\"file\":null}">>), file)
    IN  Request(<<"POST">>, this.baseUrl,
                Headers(this.apiKey, signature, timestamp, Absent, Absent),
                formData)

UploadShipmentPack ==
    /\ client.class = "FedshiGraphQLClient"
    /\ Len(calls) < MaxCalls
    /\ \E file \in UploadFiles :
          calls' = Append(calls, Call("uploadShipmentPack",
                      <<FedshiGraphQLClient_uploadShipmentPack(client, file, now)>>))
    /\ UNCHANGED <<now, client, app, jwtToken, sigs>>

----------------------------------------------------------------------------
(* The quick start guide's ThirdPartyAPIClient (JavaScript)                 *)

\* getHeaders
QuickStart_getHeaders(this, token, method, path, body, clock) ==
    LET r == QuickStart_generateSignature(this, method, path, body, clock)
    IN  Headers(this.apiKey, r.signature, r.timestamp, ApplicationJson,
                IF Truthy(token) THEN Bearer(token) ELSE Absent)

\* login up to and including its call of fetch
QuickStart_login(this, token, email, password, clock) ==
    LET method == <<"POST">>
        path == LoginPath
        body == <<"{\"Email\":\"">> \o email \o <<"\",\"Password\":\"">>
                    \o password \o <<"\"}">>
    IN  Request(<<"POST">>, this.baseUrl \o path,
                QuickStart_getHeaders(this, token, method, path, body, clock),
                StringBody(body))

QuickStartLogin ==
    /\ client.class = "QuickStartClient"
    /\ Len(calls) < MaxCalls
    /\ calls' = Append(calls, Call("login",
                  <<QuickStart_login(client, jwtToken, <<"admin@example.com">>,
                                     <<"admin_password">>, now)>>))
    /\ UNCHANGED <<now, client, app, jwtToken, sigs>>

\* login after fetch has settled: what it gives its caller
QuickStart_login_resume(call, response) ==
    IF response.network = "failed" THEN Threw(call, response, FetchFailed)
    ELSE IF Ok(response)
         THEN IF ~response.json.data.present
              THEN Threw(call, response, TypeErrorMessage)
              ELSE Returned(call, response)
         ELSE Threw(call, response,
                    <<"Login failed: ", StatusString(response.status), " - ">>
                    \o response.json.error)

\* a login that overwrites the API key with the token it was given
QuickStartLoginSettles_OverwritesKey ==
    \E i \in DOMAIN calls, response \in LoginResponses :
        /\ Pending(i)
        /\ calls[i].op = "login"
        /\ LET call == QuickStart_login_resume(calls[i], response)
           IN  /\ calls' = [calls EXCEPT ![i] = call]
               /\ client' = IF call.outcome = "returned"
                            THEN [client EXCEPT !.apiKey = response.json.data.Token]
                            ELSE client
        /\ UNCHANGED <<now, jwtToken, app, sigs>>

QuickStartLoginSettles ==
    \E i \in DOMAIN calls, response \in LoginResponses :
        /\ Pending(i)
        /\ calls[i].op = "login"
        /\ LET call == QuickStart_login_resume(calls[i], response)
           IN  /\ calls' = [calls EXCEPT ![i] = call]
               /\ jwtToken' = IF call.outcome = "returned"
                              THEN response.json.data.Token ELSE jwtToken
        /\ UNCHANGED <<now, client, app, sigs>>

\* makeGraphQLRequest up to and including its call of fetch
QuickStart_makeGraphQLRequest(this, token, query, variables, clock) ==
    LET method == <<"POST">>
        path == GraphQLPath
        body == GraphQLEnvelope(query, variables)
    IN  Request(<<"POST">>, this.baseUrl \o path,
                QuickStart_getHeaders(this, token, method, path, body, clock),
                StringBody(body))

QuickStartGraphQL ==
    /\ client.class = "QuickStartClient"
    /\ Len(calls) < MaxCalls
    /\ calls' = Append(calls, Call("makeGraphQLRequest",
                  <<QuickStart_makeGraphQLRequest(client, jwtToken,
                        <<"query OrderShipments">>, <<"{}">>, now)>>))
    /\ UNCHANGED <<now, client, app, jwtToken, sigs>>

\* makeGraphQLRequest after fetch has settled
QuickStart_makeGraphQLRequest_resume(call, response) ==
    IF response.network = "failed" THEN Threw(call, response, FetchFailed)
    ELSE IF Ok(response)
         THEN Returned(call, response)
         ELSE Threw(call, response,
                    <<"GraphQL request failed: ", StatusString(response.status), " - ">>
                    \o response.json.error)

QuickStartGraphQLSettles ==
    \E i \in DOMAIN calls, response \in GraphQLResponses :
        /\ Pending(i)
        /\ calls[i].op = "makeGraphQLRequest"
        /\ calls' = [calls EXCEPT ![i] =
                        QuickStart_makeGraphQLRequest_resume(calls[i], response)]
        /\ UNCHANGED <<now, client, app, jwtToken, sigs>>

----------------------------------------------------------------------------
(* The processes *)

Init ==
    /\ now = 0
    /\ client \in Instances
    /\ app = NewApp
    /\ jwtToken = Undefined
    /\ calls = << >>
    /\ sigs = << >>

Next ==
    \/ Tick
    \/ MakeRequest
    \/ MakeRequestSettles
    \/ InitSettles
    \/ LoginFedshi
    \/ LoginFedshiSettles
    \/ ExportOrderShipmentReceipt
    \/ ExportOrderShipmentReceiptSettles
    \/ ProcessCSVAndCreateShipmentPack
    \/ ProcessCSVParsed
    \/ ProcessCSVSettles
    \/ GraphQLClientExport
    \/ UploadShipmentPack
    \/ GraphQLClientSettles
    \/ QuickStartLogin
    \/ QuickStartLoginSettles
    \/ QuickStartGraphQL
    \/ QuickStartGraphQLSettles

Spec == Init /\ [][Next]_vars

----------------------------------------------------------------------------
(* Properties of the signers *)

Invocations == {sigs[i] : i \in DOMAIN sigs}

ThisOf(inv) ==
    [apiKey |-> inv.apiKey, secretKey |-> inv.secretKey]

\* the generateSignature methods that take the timestamp as an argument
ExplicitSigners == {"ThirdPartyAPIClient", "FedshiAPIClient", "FedshiGraphQLClient"}

\* every generateSignature method of the JavaScript clients
JsSigners == ExplicitSigners \cup {"QuickStartClient"}

SignBy(signer, this, method, path, body, timestamp) ==
    CASE signer = "ThirdPartyAPIClient" ->
            ThirdPartyAPIClient_generateSignature(this, method, path, body, timestamp)
      [] signer = "FedshiAPIClient" ->
            FedshiAPIClient_generateSignature(this, method, path, body, timestamp)
      [] signer = "FedshiGraphQLClient" ->
            FedshiGraphQLClient_generateSignature(this, method, path, body, timestamp)

\* the segment of s that starts after the first `skip` tokens and has the
\* length of `part`
Segment(s, skip, part) == SubSeq(s, skip + 1, skip + Len(part))

\* C1: generateSignature returns the hex HMAC-SHA256, keyed by the secret, of
\* a string made of exactly five segments in the order method, path, body,
\* timestamp, API key, with a single line feed between neighbours.
C1_BaseStringFormat ==
    \A inv \in Invocations :
        inv.signer \in JsSigners =>
            LET msg == inv.signature.message
                o1 == Len(inv.method)
                o2 == o1 + 1 + Len(inv.path)
                o3 == o2 + 1 + Len(inv.body)
                o4 == o3 + 1 + Len(inv.timestamp)
            IN  /\ inv.signature.alg = "HMAC-SHA256"
                /\ inv.signature.enc = "hex"
                /\ inv.signature.key = inv.secretKey
                /\ Len(msg) = o4 + 1 + Len(inv.apiKey)
                /\ Segment(msg, 0, inv.method) = inv.method
                /\ msg[o1 + 1] = NL
                /\ Segment(msg, o1 + 1, inv.path) = inv.path
                /\ msg[o2 + 1] = NL
                /\ Segment(msg, o2 + 1, inv.body) = inv.body
                /\ msg[o3 + 1] = NL
                /\ Segment(msg, o3 + 1, inv.timestamp) = inv.timestamp
                /\ msg[o4 + 1] = NL
                /\ Segment(msg, o4 + 1, inv.apiKey) = inv.apiKey

\* a signature of the browser tool's signer over a request with a body
C1_Witness ==
    \E inv \in Invocations :
        /\ inv.signer = "FedshiAPIClient"
        /\ inv.method = <<"POST">>
        /\ inv.body = <<"{\"a\":1}">>
        /\ inv.apiKey = <<"key2">>

\* C2: all signers of the repository are one operation: a signer given the
\* inputs of a recorded invocation (and stamping it with the same timestamp)
\* returns the recorded signature.
C2_SignersAgree ==
    \A inv \in Invocations :
        LET this == ThisOf(inv)
            js == QuickStart_generateSignature(this, inv.method, inv.path, inv.body, now)
            py == generate_signature(this, inv.method, inv.path, inv.body, now)
            ex == export_order_shipment_receipt_sign(this, inv.method, inv.path,
                                                     inv.body, now)
        IN  /\ \A signer \in ExplicitSigners :
                  SignBy(signer, this, inv.method, inv.path, inv.body, inv.timestamp)
                      = inv.signature
            /\ js.timestamp = inv.timestamp => js.signature = inv.signature
            /\ py.timestamp = inv.timestamp => py.signature = inv.signature
            /\ ex.timestamp = inv.timestamp => ex.signature = inv.signature

C4_SingleInputChange ==
    \A inv \in Invocations :
        inv.signer \in ExplicitSigners =>
            LET this == ThisOf(inv)
                Sig(t, m, p, b, ts) == SignBy(inv.signer, t, m, p, b, ts)
            IN  /\ \A m \in Methods \ {inv.method} :
                      Sig(this, m, inv.path, inv.body, inv.timestamp) # inv.signature
                /\ \A p \in Paths \ {inv.path} :
                      Sig(this, inv.method, p, inv.body, inv.timestamp) # inv.signature
                /\ \A b \in Bodies \ {inv.body} :
                      Sig(this, inv.method, inv.path, b, inv.timestamp) # inv.signature
                /\ \A ts \in Timestamps \ {inv.timestamp} :
                      Sig(this, inv.method, inv.path, inv.body, ts) # inv.signature
                /\ \A k \in ApiKeys \ {inv.apiKey} :
                      Sig([this EXCEPT !.apiKey = k], inv.method, inv.path, inv.body,
                          inv.timestamp) # inv.signature
                /\ \A s \in Secrets \ {inv.secretKey} :
                      Sig([this EXCEPT !.secretKey = s], inv.method, inv.path, inv.body,
                          inv.timestamp) # inv.signature

\* a signature of the documented GraphQL client's signer
C4_Witness ==
    \E inv \in Invocations :
        /\ inv.signer = "FedshiGraphQLClient"
        /\ inv.timestamp = toISOString(1)
        /\ inv.body = <<"line1", NL, "line2">>

----------------------------------------------------------------------------
(* Properties of the requests *)

\* the invocations that have called fetch
Issued == {i \in DOMAIN calls : calls[i].requests # << >>}

RequestOf(i) == calls[i].requests[1]

\* the path a URL names: what follows the origin
pathname(url) == Tail(url)

\* the body string that goes over the wire: none is the empty string, and of
\* a multipart form it is the operations part
SentBodyString(body) == IF body.kind = "none" THEN EmptyString ELSE body.text

\* C5: in every request sent, X-API-Key is the client's key and the signature
\* header is the HMAC, keyed by the client's secret, over the method, the path
\* and the body string that are sent and the timestamp of X-API-Timestamp.
C5_HeadersMatchRequest ==
    \A i \in Issued :
        LET r == RequestOf(i) IN
        /\ r.headers.XAPIKey = client.apiKey
        /\ r.headers.XAPISignature =
              HmacSHA256Hex(r.method \o <<NL>> \o pathname(r.url) \o <<NL>>
                                \o SentBodyString(r.body) \o <<NL>>
                                \o r.headers.XAPITimestamp \o <<NL>> \o client.apiKey,
                            client.secretKey)

\* the Node SDK has sent a request with a body, and one without
C5_Witness ==
    /\ client.class = "ThirdPartyAPIClient"
    /\ \E i \in Issued : RequestOf(i).body.kind = "string"
    /\ \E i \in Issued : RequestOf(i).body.kind = "none"

\* C6 as stated: no two requests of a client carry the same X-API-Timestamp.
C6_TimestampsNeverRepeat ==
    \A i, j \in Issued :
        i # j => RequestOf(i).headers.XAPITimestamp # RequestOf(j).headers.XAPITimestamp

SameRequestLine(r1, r2) ==
    r1.method = r2.method /\ r1.url = r2.url /\ r1.body = r2.body

\* C6, amended: every request is stamped with the clock as read when it is
\* built; requests built at different instants differ in timestamp and, for
\* the same method, path and body, in signature; requests built within the
\* same millisecond share the timestamp and, for the same method, path and
\* body, the signature.
C6_TimestampReadAtCallTime ==
    /\ \A i \in Issued :
          RequestOf(i).headers.XAPITimestamp = toISOString(calls[i].at)
    /\ \A i, j \in Issued :
          LET r1 == RequestOf(i)
              r2 == RequestOf(j)
          IN  IF calls[i].at # calls[j].at
              THEN /\ r1.headers.XAPITimestamp # r2.headers.XAPITimestamp
                   /\ r1.headers.XAPISignature # r2.headers.XAPISignature
              ELSE /\ r1.headers.XAPITimestamp = r2.headers.XAPITimestamp
                   /\ SameRequestLine(r1, r2) =>
                          r1.headers.XAPISignature = r2.headers.XAPISignature

\* the same request sent twice, at two instants
C6_Witness ==
    \E i, j \in Issued :
        /\ calls[i].at # calls[j].at
        /\ calls[i].op = "processCSVAndCreateShipmentPack"
        /\ SameRequestLine(RequestOf(i), RequestOf(j))

\* the session token the process holds
HeldToken ==
    CASE client.class = "FedshiAPIClient" -> app.fedshiJwtToken
      [] client.class = "QuickStartClient" -> jwtToken
      [] OTHER -> Undefined

\* the invocations that call fetch in this step
Issuing ==
    {i \in DOMAIN calls' :
        /\ calls'[i].requests # << >>
        /\ (i \in DOMAIN calls => calls[i].requests = << >>)}

\* C7 as stated: a request carries Authorization: Bearer <token> if and only
\* if a session token is held when the request is built.
C7_BearerIffTokenHeld ==
    [][\A i \in Issuing :
          (calls'[i].requests[1].headers.Authorization # Absent) <=> Truthy(HeldToken)]_vars

\* C7, amended: a request other than the browser tool's login request carries
\* Authorization: Bearer <token>, with the held token, if and only if a token
\* is held when it is built; the browser tool's login request never carries it.
C7_BearerIffTokenHeldExceptBrowserLogin ==
    [][\A i \in Issuing :
          calls'[i].requests[1].headers.Authorization =
              IF calls'[i].op # "loginFedshi" /\ Truthy(HeldToken)
              THEN Bearer(HeldToken) ELSE Absent]_vars

\* after a login that succeeded, a GraphQL request of the browser tool
\* carries the stored token
C7_Witness ==
    \E i \in Issued :
        /\ calls[i].op = "exportOrderShipmentReceipt"
        /\ Truthy(app.fedshiJwtToken)
        /\ RequestOf(i).headers.Authorization = Bearer(app.fedshiJwtToken)

LoginOps == {"loginFedshi", "login"}

\* invocation i resumes in this step with an HTTP response
SettlesWithResponse(i) ==
    /\ calls[i].pc = "fetch"
    /\ calls'[i].pc = "done"
    /\ calls'[i].responses[1].network = "ok"

\* C8: a login that gets a non-2xx response fails with an error and leaves
\* the stored session token as it was.
C8_FailedLoginKeepsToken ==
    [][\A i \in DOMAIN calls :
          (/\ calls[i].op \in LoginOps
           /\ SettlesWithResponse(i)
           /\ ~Ok(calls'[i].responses[1]))
          => /\ calls'[i].outcome = "threw"
             /\ calls'[i].error # EmptyString
             /\ HeldToken' = HeldToken]_vars

\* a login of the browser tool was answered 401 while a token was held
C8_Witness ==
    \E i \in DOMAIN calls :
        /\ calls[i].op = "loginFedshi"
        /\ calls[i].pc = "done"
        /\ calls[i].responses # << >>
        /\ calls[i].responses[1].status = 401
        /\ app.fedshiJwtToken = <<"jwtA">>

\* the token member a client reads from the login response
TokenField(response) ==
    IF client.class = "FedshiAPIClient" THEN response.json.Token
    ELSE response.json.data.Token

GraphQLOps ==
    {"exportOrderShipmentReceipt", "processCSVAndCreateShipmentPack",
     "FedshiGraphQLClient.exportOrderShipmentReceipt", "uploadShipmentPack",
     "makeGraphQLRequest"}

\* C10: a GraphQL response with HTTP 200 and a non-empty errors array is a
\* failure: no GraphQL operation returns to its caller on such a response.
C10_GraphQLErrorsAreFailures ==
    \A i \in DOMAIN calls :
        (/\ calls[i].op \in GraphQLOps
         /\ calls[i].responses # << >>
         /\ calls[i].responses[1].network = "ok"
         /\ calls[i].responses[1].status = 200
         /\ calls[i].responses[1].json.errors.present
         /\ calls[i].responses[1].json.errors.items # << >>)
        => calls[i].outcome = "threw"


----------------------------------------------------------------------------
(* Properties of the failures *)

\* the invocations that have ended on an HTTP response
Answered == {i \in DOMAIN calls : calls[i].pc = "done" /\ calls[i].responses # << >>
                                   /\ calls[i].responses[1].network = "ok"}

ResponseOf(i) == calls[i].responses[1]

\* C11: a GraphQL operation that is answered with a non-empty errors array
\* fails, and the error it fails with is the message of the first error.
C11_FirstErrorMessageSurfaced ==
    \A i \in Answered :
        (/\ calls[i].op \in GraphQLOps
         /\ ResponseOf(i).json.errors.present
         /\ ResponseOf(i).json.errors.items # << >>)
        => /\ calls[i].outcome = "threw"
           /\ calls[i].error = ResponseOf(i).json.errors.items[1].message

\* the text has the token in it
Mentions(text, token) == \E k \in DOMAIN text : text[k] = token

\* C12: an operation that is answered with a non-2xx status fails, and the
\* error it fails with carries the status code.
C12_FailureCarriesStatus ==
    \A i \in Answered :
        ~Ok(ResponseOf(i)) =>
            /\ calls[i].outcome = "threw"
            /\ Mentions(calls[i].error, StatusString(ResponseOf(i).status))

\* C13: an invocation calls fetch at most once: it never holds more than
\* one request, and once it has sent its request no step, whatever the
\* response, makes it send another.
C13_NoRetry ==
    [][\A i \in DOMAIN calls' :
          /\ Len(calls'[i].requests) <= 1
          /\ (i \in DOMAIN calls /\ calls[i].requests # << >>)
                => calls'[i].requests = calls[i].requests]_vars

\* a makeRequest and a login that were refused, each after one request
C13_Witness ==
    \E i \in Answered :
        /\ calls[i].op \in {"makeRequest", "loginFedshi"}
        /\ ResponseOf(i).status = 401
        /\ calls[i].outcome = "threw"
        /\ Len(calls[i].requests) = 1

----------------------------------------------------------------------------
(* A page in which a second FedshiAPIClient is built next to the one of     *)
(* window.app                                                               *)

\* a FedshiAPIClient built in the same page with the other credential pair
SecondInstance ==
    LET c == CHOOSE c \in Credentials : c[1] # client.apiKey
    IN  FedshiAPIClient(c[1], c[2], client.baseUrl)

\* exportOrderShipmentReceipt of the second instance: makeGraphQLRequest
\* reads window.app, whichever instance runs it
SecondInstanceExport ==
    /\ client.class = "FedshiAPIClient"
    /\ Len(calls) < MaxCalls
    /\ \E id \in OrderShipmentIDs :
          calls' = Append(calls, Call("exportOrderShipmentReceipt",
                      <<FedshiAPIClient_makeGraphQLRequest(SecondInstance, app, ExportQuery,
                            <<"{\"ID\":\"">> \o id \o <<"\"}">>, now)>>))
    /\ UNCHANGED <<now, client, app, jwtToken, sigs>>

NextPage ==
    \/ Next
    \/ SecondInstanceExport

SpecPage == Init /\ [][NextPage]_vars

\* C14: the session token belongs to the instance that logged in: a request
\* built by another instance (one that signs with another API key) carries
\* no Authorization header.
C14_TokenScopedToInstance ==
    \A i \in Issued :
        RequestOf(i).headers.XAPIKey # client.apiKey =>
            RequestOf(i).headers.Authorization = Absent

----------------------------------------------------------------------------
(* Properties of the request line *)

\* C15: a multipart request signs the operations envelope, the very value of
\* its operations part and not the bytes of the file, and sets no
\* Content-Type; every other request sets Content-Type: application/json.
C15_MultipartSignsOperations ==
    \A i \in Issued :
        LET r == RequestOf(i) IN
        IF r.body.kind = "formdata"
        THEN /\ r.headers.ContentType = Absent
             /\ r.body.text # r.body.file
             /\ r.headers.XAPISignature =
                   HmacSHA256Hex(r.method \o <<NL>> \o GraphQLPath \o <<NL>>
                                     \o r.body.text \o <<NL>>
                                     \o r.headers.XAPITimestamp \o <<NL>> \o client.apiKey,
                                 client.secretKey)
        ELSE r.headers.ContentType = ApplicationJson

\* the documented GraphQL client has uploaded a file and has sent a query
C15_Witness ==
    /\ \E i \in Issued : /\ calls[i].op = "uploadShipmentPack"
                         /\ RequestOf(i).body.kind = "formdata"
                         /\ RequestOf(i).body.file = <<"raw bytes of pack.csv">>
    /\ \E i \in Issued : RequestOf(i).body.kind = "string"

----------------------------------------------------------------------------
(* Clients built from whatever configuration the caller supplies: the       *)
(* constructors take any three values.                                      *)

\* apiKey, secret and baseUrl as a caller or config.json may supply them: the
\* key missing, or the secret empty; the base URL is the API's origin
SuppliedConfigurations ==
    { <<Undefined, <<"secretA">>, u>> : u \in BaseUrls }
    \cup { <<<<"key1">>, EmptyString, u>> : u \in BaseUrls }

InstancesOfAnyConfiguration ==
    UNION { { ThirdPartyAPIClient(c[1], c[2], c[3]), FedshiAPIClient(c[1], c[2], c[3]),
              FedshiGraphQLClient(c[1], c[2], c[3]), QuickStartClient(c[1], c[2], c[3]) } :
            c \in SuppliedConfigurations }

InitAnyConfiguration ==
    /\ now = 0
    /\ client \in InstancesOfAnyConfiguration
    /\ app = NewApp
    /\ jwtToken = Undefined
    /\ calls = << >>
    /\ sigs = << >>

SpecAnyConfiguration == InitAnyConfiguration /\ [][Next]_vars

\* the path segment of a signed base string: what stands between its first
\* and its second line feed
SignedPath(message) ==
    LET end == CHOOSE k \in 3..Len(message) :
                   /\ message[k] = NL
                   /\ \A j \in 3..(k - 1) : message[j] # NL
    IN  SubSeq(message, 3, end - 1)

\* C16: every request goes to baseUrl + path with the path that was signed,
\* so the path requested is the path signed.
C16_SignedPathIsRequestedPath ==
    \A i \in Issued :
        LET r == RequestOf(i)
            path == SignedPath(r.headers.XAPISignature.message)
        IN  /\ r.url = client.baseUrl \o path
            /\ pathname(r.url) = path

\* C17: no request is built by a client whose API key, secret or base URL
\* is missing: such a client cannot be constructed.
C17_NoRequestWithoutConfiguration ==
    \A i \in Issued :
        /\ Truthy(client.apiKey)
        /\ Truthy(client.secretKey)
        /\ Truthy(client.baseUrl)

\* C18: no request carries a signature computed with an empty secret: signing
\* with an empty secret fails.
C18_NoSignatureFromEmptySecret ==
    \A i \in Issued : RequestOf(i).headers.XAPISignature.key # EmptyString

----------------------------------------------------------------------------
(* Properties of the credentials *)

\* the text has the part in it
Contains(text, part) ==
    \E k \in 0..(Len(text) - Len(part)) : SubSeq(text, k + 1, k + Len(part)) = part

\* C19: the secret does not leave the process: it is in no URL, header or
\* body of a request, and the signature header is a digest keyed by it over
\* a string that does not hold it.
C19_SecretNeverSent ==
    \A i \in Issued :
        LET r == RequestOf(i)
            secret == client.secretKey
        IN  /\ ~Contains(r.url, secret)
            /\ ~Contains(r.method, secret)
            /\ ~Contains(r.headers.XAPIKey, secret)
            /\ ~Contains(r.headers.XAPITimestamp, secret)
            /\ ~Contains(r.headers.ContentType, secret)
            /\ ~Contains(r.headers.Authorization, secret)
            /\ ~Contains(r.body.text, secret)
            /\ ~Contains(r.body.file, secret)
            /\ r.headers.XAPISignature.alg = "HMAC-SHA256"
            /\ r.headers.XAPISignature.key = secret
            /\ ~Contains(r.headers.XAPISignature.message, secret)

\* the browser tool has logged in with the user's password and has sent a
\* request with the token
C19_Witness ==
    /\ \E i \in Issued : /\ calls[i].op = "loginFedshi"
                         /\ Contains(RequestOf(i).body.text, <<"admin_password">>)
    /\ \E i \in Issued : RequestOf(i).headers.Authorization # Absent

\* C20: no operation assigns apiKey, the secret or baseUrl: through every
\* step the client keeps the three values its constructor stored.
C20_CredentialsNeverChange ==
    [][/\ client'.apiKey = client.apiKey
       /\ client'.secretKey = client.secretKey
       /\ client'.baseUrl = client.baseUrl]_vars

\* the quick start client has logged in and has then sent a request with
\* the token, and is as it was built
C20_Witness ==
    /\ client \in Instances
    /\ \E i, j \in Answered :
          /\ calls[i].op = "login" /\ calls[i].outcome = "returned"
          /\ calls[j].op = "makeGraphQLRequest"
          /\ RequestOf(j).headers.Authorization = Bearer(jwtToken)

----------------------------------------------------------------------------
(* Properties of the browser tool's session *)

\* the logins of the browser tool that stored a token
SuccessfulLogins ==
    {i \in Answered : /\ calls[i].op = "loginFedshi"
                      /\ calls[i].outcome = "returned"
                      /\ Truthy(ResponseOf(i).json.Token)}

\* C21: the file inputs and the file-card buttons are enabled exactly when
\* authenticationStatus.fedshi is true, and they are not enabled before a
\* login has succeeded.
C21_FileOperationsFollowAuthentication ==
    /\ app.fileOperationsEnabled = app.authenticationStatus.fedshi
    /\ app.fileOperationsEnabled => SuccessfulLogins # {}

\* a login succeeded and a later one was refused: the controls are disabled
\* again
C21_Witness ==
    /\ ~app.fileOperationsEnabled
    /\ \E i \in SuccessfulLogins, j \in Answered :
          /\ i < j
          /\ calls[j].op = "loginFedshi"
          /\ calls[j].outcome = "threw"

----------------------------------------------------------------------------
(* Batch processing of the browser tool: processFedshiFiles                 *)

\* order IDs a CSV file may list
AllOrderIds == << <<"A1">>, <<"B2">>, <<"C3">>, <<"D4">> >>

\* the files the user may pick, as CSV.parse reads them: the first column of
\* every row, the header row first; the empty file; a file with a blank row
OrderCsvs ==
    { <<<<"OrderID">>>> \o SubSeq(AllOrderIds, 1, n) :
          n \in 0..(IF MaxCalls < 4 THEN MaxCalls ELSE 4) }
    \cup { << >>, << <<"OrderID">>, <<"A1">>, EmptyString >> }

\* extractOrderIds on a file that is not empty: the rows after the header
\* whose first column is not empty
extractOrderIds(csvData) == SelectSeq(Tail(csvData), Truthy)

\* what the GraphQL endpoint may answer to ExportOrderShipmentReceipt: also
\* a receipt that is null
ExportResponses ==
    GraphQLResponses
    \cup { Response(200, Json(Undefined, Data(Undefined, Undefined), NoErrors, Undefined)) }

\* processOrderFedshiOnly up to the fetch of makeGraphQLRequest
processOrderFedshiOnly(orderId) ==
    Call("processOrderFedshiOnly",
         <<FedshiAPIClient_makeGraphQLRequest(client, app, ExportQuery,
               <<"{\"ID\":\"">> \o orderId \o <<"\"}">>, now)>>)

\* processOrderFedshiOnly after exportOrderShipmentReceipt has settled
processOrderFedshiOnly_resume(call, response) ==
    LET exported == FedshiAPIClient_makeGraphQLRequest_resume(call, response)
    IN  IF exported.outcome = "returned" /\ ~Truthy(response.json.data.result)
        THEN Threw(call, response, <<"No content received from Fedshi">>)
        ELSE exported

\* the body of the loop after the await: the counters, the success log and
\* the failed-orders list
AfterOrder(a, orderId, ok) ==
    [a EXCEPT !.batch.index = @ + 1,
              !.batch.processedCount = IF ok THEN @ + 1 ELSE @,
              !.batch.failedCount = IF ok THEN @ ELSE @ + 1,
              !.batch.attempted = Append(@, [id |-> orderId, ok |-> ok]),
              !.processingResults.success =
                  IF ok THEN Append(@, <<"Successfully processed Fedshi order: ">> \o orderId)
                  ELSE @,
              !.processingResults.failed = IF ok THEN @ ELSE Append(@, orderId)]

\* a loop that gives up at the first order that fails
processFedshiFiles_next_StopsAtFailure(a) ==
    IF a.batch.attempted # << >> /\ ~a.batch.attempted[Len(a.batch.attempted)].ok
    THEN [a EXCEPT !.batch.pc = "done", !.batch.outcome = "threw",
                   !.batch.error = <<"Error processing Fedshi files">>]
    ELSE IF a.batch.index < Len(a.batch.orderIds)
    THEN [a EXCEPT !.batch.pc = "loop"]
    ELSE [a EXCEPT !.batch.pc = "done", !.batch.outcome = "complete"]

\* the head of the loop: on to the next order, or the closing message
processFedshiFiles_next(a) ==
    IF a.batch.index < Len(a.batch.orderIds)
    THEN [a EXCEPT !.batch.pc = "loop"]
    ELSE [a EXCEPT !.batch.pc = "done", !.batch.outcome = "complete"]

RECURSIVE FailEveryOrder(_)
\* the loop when this.fedshiClient is null: every processOrderFedshiOnly
\* throws before it sends anything
FailEveryOrder(a) ==
    LET a1 == processFedshiFiles_next(a)
    IN  IF a1.batch.pc = "done" THEN a1
        ELSE FailEveryOrder(AfterOrder(a1, a1.batch.orderIds[a1.batch.index + 1], FALSE))

\* processFedshiFiles is invoked: without a selected file it returns,
\* otherwise it awaits readCSVFile
ProcessFedshiFiles ==
    /\ client.class = "FedshiAPIClient"
    /\ app.batch.pc = "idle"
    /\ \E selected \in BOOLEAN :
          app' = IF selected THEN [app EXCEPT !.batch.pc = "readCSVFile"]
                 ELSE [app EXCEPT !.batch.pc = "done", !.batch.outcome = "skipped"]
    /\ UNCHANGED <<now, client, jwtToken, calls, sigs>>

\* readCSVFile has resolved: extractOrderIds, and the first turn of the loop
BatchCsvRead ==
    /\ app.batch.pc = "readCSVFile"
    /\ \E csvData \in OrderCsvs :
          IF csvData = << >>
          THEN /\ app' = [app EXCEPT !.batch.pc = "done", !.batch.outcome = "threw",
                                     !.batch.error = <<"CSV file is empty">>]
               /\ calls' = calls
          ELSE LET a1 == [app EXCEPT !.batch.orderIds = extractOrderIds(csvData)]
                   a2 == processFedshiFiles_next(a1)
               IN  IF a2.batch.pc = "done"
                   THEN app' = a2 /\ calls' = calls
                   ELSE IF FedshiClientIsNull
                   THEN app' = FailEveryOrder(a1) /\ calls' = calls
                   ELSE /\ app' = a2
                        /\ calls' = Append(calls, processOrderFedshiOnly(a2.batch.orderIds[1]))
    /\ UNCHANGED <<now, client, jwtToken, sigs>>

\* the export of the current order has settled: the rest of this turn of the
\* loop and the start of the next
BatchOrderSettles ==
    \E i \in DOMAIN calls, response \in ExportResponses :
        /\ Pending(i)
        /\ calls[i].op = "processOrderFedshiOnly"
        /\ app.batch.pc = "loop"
        /\ LET call == processOrderFedshiOnly_resume(calls[i], response)
               orderId == app.batch.orderIds[app.batch.index + 1]
               a1 == processFedshiFiles_next(
                         AfterOrder(app, orderId, call.outcome = "returned"))
               settled == [calls EXCEPT ![i] = call]
           IN  /\ app' = a1
               /\ calls' = IF a1.batch.pc = "loop"
                           THEN Append(settled,
                                    processOrderFedshiOnly(a1.batch.orderIds[a1.batch.index + 1]))
                           ELSE settled
        /\ UNCHANGED <<now, client, jwtToken, sigs>>

\* readCSVFile has rejected: the outer catch shows the error
ReadFailures == {<<"Failed to parse CSV file">>, <<"Failed to read file">>}

BatchCsvRejected ==
    /\ app.batch.pc = "readCSVFile"
    /\ \E error \in ReadFailures :
          app' = [app EXCEPT !.batch.pc = "done", !.batch.outcome = "threw",
                             !.batch.error = error]
    /\ UNCHANGED <<now, client, jwtToken, calls, sigs>>

InitBatch ==
    /\ now = 0
    /\ client \in {c \in Instances : c.class = "FedshiAPIClient"}
    /\ app = NewApp
    /\ jwtToken = Undefined
    /\ calls = << >>
    /\ sigs = << >>

\* the user logs in, and may do so again, before the batch is started
BatchLogin == app.batch.pc = "idle" /\ Len(calls) < 2 /\ LoginFedshi

NextBatch ==
    \/ InitSettles
    \/ ProcessFedshiFiles
    \/ BatchCsvRead
    \/ BatchCsvRejected
    \/ BatchOrderSettles
    \/ BatchLogin
    \/ LoginFedshiSettles

SpecBatch == InitBatch /\ [][NextBatch]_vars

\* the exports the batch has issued, in the order it issued them
BatchCalls == SelectSeq(calls, LAMBDA c : c.op = "processOrderFedshiOnly")

\* C22: processFedshiFiles attempts every order ID of the file exactly once,
\* in file order and one at a time; a failed order does not stop the batch;
\* the two counters add up to the number of order IDs; the failed IDs are on
\* the failed-orders list and the succeeded ones in the success log
C22_BatchAttemptsEveryOrderOnce ==
    LET b == app.batch
        ids == [k \in 1..Len(b.attempted) |-> b.attempted[k].id]
        turn == IF b.pc = "loop" THEN 1 ELSE 0
        failedIds == [k \in 1..Len(SelectSeq(b.attempted, LAMBDA t : ~t.ok)) |->
                         SelectSeq(b.attempted, LAMBDA t : ~t.ok)[k].id]
        succeeded == [k \in 1..Len(SelectSeq(b.attempted, LAMBDA t : t.ok)) |->
                         <<"Successfully processed Fedshi order: ">> \o
                         SelectSeq(b.attempted, LAMBDA t : t.ok)[k].id]
    IN  /\ Len(ids) <= Len(b.orderIds)
        /\ ids = SubSeq(b.orderIds, 1, Len(ids))
        /\ b.index = Len(ids)
        /\ b.processedCount + b.failedCount = Len(ids)
        /\ Len(BatchCalls) \in {0, b.index + turn}
        /\ \A k \in 1..Len(BatchCalls) :
              BatchCalls[k].requests[1].body.text =
                  GraphQLEnvelope(ExportQuery, <<"{\"ID\":\"">> \o b.orderIds[k] \o <<"\"}">>)
        /\ Cardinality({i \in DOMAIN calls : /\ calls[i].op = "processOrderFedshiOnly"
                                             /\ Pending(i)}) = turn
        /\ app.processingResults.failed = failedIds
        /\ app.processingResults.success = succeeded
        /\ (b.pc = "done" /\ b.orderIds # << >>) =>
              /\ b.outcome = "complete"
              /\ ids = b.orderIds
              /\ b.processedCount + b.failedCount = Len(b.orderIds)

C22_Witness ==
    /\ app.batch.outcome = "complete"
    /\ Len(app.batch.orderIds) >= 2
    /\ Len(BatchCalls) = Len(app.batch.orderIds)
    /\ ~app.batch.attempted[1].ok
    /\ app.batch.attempted[2].ok
    /\ app.batch.processedCount >= 1
    /\ app.batch.failedCount >= 1

----------------------------------------------------------------------------
(* Properties of overlapping calls *)

\* the calls of makeRequest whose fetch has not settled
InFlight == {i \in Issued : Pending(i) /\ calls[i].op = "makeRequest"}

\* C23: makeRequest calls in flight together on one ThirdPartyAPIClient do
\* not interfere: the request each of them sent carries the signature of its
\* own method, path, body and timestamp
C23_ConcurrentRequestsSignOwnFields ==
    \A i \in InFlight, j \in InFlight :
        i # j =>
            LET r == RequestOf(i) IN
            r.headers.XAPISignature =
                HmacSHA256Hex(r.method \o <<NL>> \o pathname(r.url) \o <<NL>>
                                  \o SentBodyString(r.body) \o <<NL>>
                                  \o r.headers.XAPITimestamp \o <<NL>> \o client.apiKey,
                              client.secretKey)

\* two calls in flight that differ in method, path, body and timestamp
C23_Witness ==
    \E i \in InFlight, j \in InFlight :
        /\ RequestOf(i).method # RequestOf(j).method
        /\ RequestOf(i).url # RequestOf(j).url
        /\ RequestOf(i).body # RequestOf(j).body
        /\ RequestOf(i).headers.XAPITimestamp # RequestOf(j).headers.XAPITimestamp

\* the logins that reached the server
LoginsSent == {i \in Issued : calls[i].op = "loginFedshi"}

\* C24: when loginFedshi calls overlap, the state they leave is that of the
\* login started last, in whatever order the responses arrive
C24_LastStartedLoginWins ==
    (LoginsSent # {} /\ \A i \in LoginsSent : ~Pending(i)) =>
        LET last == CHOOSE i \in LoginsSent : \A k \in LoginsSent : k <= i
        IN  /\ app.authenticationStatus.fedshi = (last \in SuccessfulLogins)
            /\ last \in SuccessfulLogins =>
                  app.fedshiJwtToken = ResponseOf(last).json.Token

\* C25: while authenticationStatus.fedshi is true fedshiJwtToken is not
\* empty; the flag becomes true only in the step that stores the token of a
\* login response; a stored token is never cleared or emptied
C25_AuthenticatedMeansTokenHeld ==
    /\ [](app.authenticationStatus.fedshi => Truthy(app.fedshiJwtToken))
    /\ [][/\ (app'.authenticationStatus.fedshi /\ ~app.authenticationStatus.fedshi) =>
                \E i \in DOMAIN calls :
                    /\ Pending(i)
                    /\ calls[i].op = "loginFedshi"
                    /\ calls'[i].outcome = "returned"
                    /\ Truthy(calls'[i].responses[1].json.Token)
                    /\ app'.fedshiJwtToken = calls'[i].responses[1].json.Token
          /\ Truthy(app.fedshiJwtToken) => Truthy(app'.fedshiJwtToken)]_vars

\* the tool is authenticated and one of its logins was answered without a
\* token
C25_Witness ==
    /\ app.authenticationStatus.fedshi
    /\ Truthy(app.fedshiJwtToken)
    /\ \E i \in LoginsSent :
          /\ calls[i].outcome = "returned"
          /\ ~Truthy(ResponseOf(i).json.Token)

\* the GraphQL requests of the browser tool
ToolGraphQLOps ==
    {"exportOrderShipmentReceipt", "processCSVAndCreateShipmentPack",
     "processOrderFedshiOnly"}

\* C26: a GraphQL request built while authenticationStatus.fedshi is false
\* carries no Authorization header; so after a successful login followed by
\* a failed one the requests carry no bearer token
C26_NoBearerWhileUnauthenticated ==
    [][\A i \in Issuing :
          (calls'[i].op \in ToolGraphQLOps /\ ~app.authenticationStatus.fedshi) =>
              calls'[i].requests[1].headers.Authorization = Absent]_vars

----------------------------------------------------------------------------
(* The signers on any strings: generateSignature takes what it is given     *)

AnyPaths == {<<"/orders">>, <<"/orders", NL, "a">>, <<"/usage-stats">>}
AnyBodies == {EmptyString, <<"b">>, <<"a", NL, "b">>, <<"{\"a\":1}">>}

SignNodeSDKAny ==
    \E k \in ApiKeys, m \in Methods, p \in AnyPaths, b \in AnyBodies, t \in Timestamps :
        LET this == ThirdPartyAPIClient(k, client.secretKey, client.baseUrl) IN
        /\ Record(Invocation("ThirdPartyAPIClient", this, m, p, b, t,
                ThirdPartyAPIClient_generateSignature(this, m, p, b, t)))
        /\ UNCHANGED <<now, client, app, jwtToken, calls>>

SignBrowserToolAny ==
    \E k \in ApiKeys, m \in Methods, p \in AnyPaths, b \in AnyBodies, t \in Timestamps :
        LET this == FedshiAPIClient(k, client.secretKey, client.baseUrl) IN
        /\ Record(Invocation("FedshiAPIClient", this, m, p, b, t,
                FedshiAPIClient_generateSignature(this, m, p, b, t)))
        /\ UNCHANGED <<now, client, app, jwtToken, calls>>

NextSignAny ==
    \/ SignNodeSDKAny
    \/ SignBrowserToolAny

SpecSignAny == InitSign /\ [][NextSignAny]_vars

\* C27: for a fixed API key, two requests whose (method, path, body,
\* timestamp) differ in any way, be it in several fields at once, never get
\* the same base string, hence never the same signature
C27_BaseStringUnambiguous ==
    [][(/\ sigs # << >>
        /\ sigs' # << >>
        /\ sigs'[1].signer = sigs[1].signer
        /\ sigs'[1].apiKey = sigs[1].apiKey
        /\ sigs'[1].secretKey = sigs[1].secretKey
        /\ <<sigs'[1].method, sigs'[1].path, sigs'[1].body, sigs'[1].timestamp>>
              # <<sigs[1].method, sigs[1].path, sigs[1].body, sigs[1].timestamp>>)
       => sigs'[1].signature # sigs[1].signature]_vars

----------------------------------------------------------------------------
(* Properties of loginFedshi *)

\* the invocation that a step starts
Started == {i \in DOMAIN calls' : i \notin DOMAIN calls /\ calls'[i].op = "loginFedshi"}

\* C28: loginFedshi with an empty email or an empty password sends no HTTP
\* request and leaves the stored token and authenticationStatus as they were:
\* a login request always names an email and a password that are not empty,
\* and the invocation that returns at the check changes nothing
C28_EmptyLoginDoesNothing ==
    [][\A i \in Started :
          /\ calls'[i].outcome = "skipped" =>
                /\ calls'[i].requests = << >>
                /\ app' = app
          /\ calls'[i].requests # << >> =>
                \E in \in LoginInputs :
                    /\ in.username # EmptyString
                    /\ in.password # EmptyString
                    /\ calls'[i].requests[1].body.text =
                          <<"{\"email\":\"">> \o in.username \o <<"\",\"password\":\"">>
                              \o in.password \o <<"\"}">>
          /\ (calls'[i].requests = << >> /\ calls'[i].outcome # "skipped") =>
                FedshiClientIsNull]_vars

\* a login with an empty field was attempted while the tool held a token
C28_Witness ==
    /\ Truthy(app.fedshiJwtToken)
    /\ app.authenticationStatus.fedshi
    /\ \E i \in DOMAIN calls : calls[i].op = "loginFedshi" /\ calls[i].outcome = "skipped"

\* the loginFedshi invocations that a step brings to their end
Ending ==
    {i \in DOMAIN calls' :
        /\ calls'[i].op = "loginFedshi"
        /\ calls'[i].pc = "done"
        /\ calls'[i].outcome # "skipped"
        /\ (i \in DOMAIN calls => calls[i].pc = "fetch")}

\* C29: loginFedshi ends without an uncaught error, its last statement
\* updateAuthenticationStatus included, and does not leave the tool
\* authenticated by mistake: when fedshiClient is null, when the request
\* throws or when the response has no Token, it ends with
\* authenticationStatus.fedshi false and the file operations disabled
C29_FailedLoginEndsUnauthenticated ==
    [][\A i \in Ending :
          /\ app'.fileOperationsEnabled = app'.authenticationStatus.fedshi
          /\ (\/ calls'[i].outcome = "threw"
              \/ ~Truthy(calls'[i].responses[1].json.Token)) =>
                /\ ~app'.authenticationStatus.fedshi
                /\ ~app'.fileOperationsEnabled]_vars

\* a login has failed after the tool had been authenticated
C29_Witness ==
    /\ ~app.authenticationStatus.fedshi
    /\ ~app.fileOperationsEnabled
    /\ Truthy(app.fedshiJwtToken)
    /\ \E i \in LoginsSent : calls[i].outcome = "threw"

----------------------------------------------------------------------------
(* Properties of the shipment pack upload *)

\* a line that counts as a data row: two columns or more, of which the first
\* two hold more than blanks
ValidDataRow(line) ==
    /\ Len(line) >= 2
    /\ line[1] \notin {"", " "}
    /\ line[2] \notin {"", " "}

====
